---- MODULE Spec2Model ----
(***************************************************************************)
(* libyang string dictionary (dict.c) on top of the generic hash table     *)
(* (hash_table_internal.h).  Threads call lydict_insert, lydict_insert_zc  *)
(* and lydict_remove on one dictionary; every call is cut into the steps   *)
(* between which another thread can run.  The hash table algorithms        *)
(* (lyht_new, lyht_find, lyht_insert_with_resize_cb,                       *)
(* lyht_remove_with_resize_cb, lyht_hash) are not part of the sources at   *)
(* hand: they follow the design document, over the structures the header   *)
(* declares.                                                               *)
(***************************************************************************)
EXTENDS Integers, Sequences, FiniteSets, TLC

\* ------------------------------------------------------------------ bounds
NThreads == 2            \* threads sharing the dictionary
MaxAlloc == 3            \* heap buffers malloc can hand out in one run
TableStartSize == 8      \* starting capacity used for the table of the model
RefcountBits == 2        \* width given to the uint32_t refcount
MaxFaults == 1           \* table calls that fail in one run
NVals == 6               \* distinct values offered to a stand-alone table

\* ------------------------------------------------------- program constants
LYHT_HUNDRED_PERCENTAGE == 100
LYHT_ENLARGE_PERCENTAGE == 75
LYHT_FIRST_SHRINK_PERCENTAGE == 50
LYHT_SHRINK_PERCENTAGE == 25
LYHT_MIN_SIZE == 8
\* UINT32_MAX, written as the index -1 that no record has
LYHT_NO_RECORD == -1

\* the refcount is unsigned and wraps
UINT_MOD == 2 ^ RefcountBits

NULL == 0
Threads == 1..NThreads
\* The C strings callers own (string literals); the pointer to the i-th is -i.
CallerStr == << <<1>>, <<1, 1>>, <<2>>, <<1, 2>>, <<2, 1>>, <<2, 2>>, <<3>>,
               <<1, 3>>, <<2, 3>>, <<3, 1>>, <<3, 2>>, <<3, 3>>, <<1, 1, 1>> >>

\* The strings the callers of the runs pass to the dictionary.
CallerPtrs == {-1, -2}

\* The strings interned, once each, before the runs that make the table grow.
Preloaded == <<-3, -4, -5, -6, -7, -8, -9, -10, -11, -12, -13>>

\* The heap: MaxAlloc buffers for the calls of a run, then those of Preloaded.
HeapPtrs == 1..(MaxAlloc + Len(Preloaded))

\* LY_ERR values
LY_SUCCESS == "LY_SUCCESS"
LY_EMEM == "LY_EMEM"
LY_EINVAL == "LY_EINVAL"
LY_EEXIST == "LY_EEXIST"
LY_ENOTFOUND == "LY_ENOTFOUND"
LY_EINT == "LY_EINT"

VARIABLES
    ht,      \* ctx->dict.hash_tab : struct ly_ht
    lock,    \* ctx->dict.lock : the thread holding the mutex, or 0
    mem,     \* the heap: one cell per buffer malloc has handed out
    th,      \* per thread: position in its call, arguments, locals, result
    hist,    \* observer: per content, the calls that have taken effect
    faults   \* observer: the table calls that have failed so far

vars == <<ht, lock, mem, th, hist, faults>>

\* ------------------------------------------------------------ C strings
\* The bytes a char pointer points to, up to the terminator.
Str(m, p) == IF p < 0 THEN CallerStr[-p] ELSE m[p].str

strlen(m, p) == Len(Str(m, p))

\* strcmp(a, b) == 0
StrEq(m, p, q) == Str(m, p) = Str(m, q)

\* All contents a dictionary string can have: the prefixes of caller strings.
Contents ==
    UNION {{SubSeq(CallerStr[i], 1, n) : n \in 1..Len(CallerStr[i])} : i \in 1..Len(CallerStr)}

\* lyht_hash(value, len): a deterministic 32-bit digest of the bytes (the
\* digests of the strings at hand stay far below 2^32).
RECURSIVE lyht_hash(_, _)
lyht_hash(bytes, len) ==
    IF len = 0 THEN 0
    ELSE lyht_hash(bytes, len - 1) * 8 + bytes[len]

\* ------------------------------------------------------ generic hash table
\* struct ly_dict_rec
DictRec(value, refcount) == [value |-> value, refcount |-> refcount]

\* struct ly_ht_rec filled without the hash of the value
HtRec_NoHash(hash, next, val) == [hash |-> 0, next |-> next, val |-> val]

\* struct ly_ht_rec; a slot on the free list keeps no payload
HtRec(hash, next, val) == [hash |-> hash, next |-> next, val |-> val]
FreeRec(next) == HtRec(0, next, DictRec(NULL, 0))

\* struct ly_ht_bucket
EmptyBucket == [first |-> LYHT_NO_RECORD, last |-> LYHT_NO_RECORD]

RECURSIVE RoundUpPow2(_, _)
RoundUpPow2(n, p) == IF p >= n THEN p ELSE RoundUpPow2(n, 2 * p)

\* Record slots first..size-1 threaded into a free list ending in NO_RECORD.
FreeChain(size, first) ==
    [i \in 0..(size - 1) |->
        FreeRec(IF i < first \/ i = size - 1 THEN LYHT_NO_RECORD ELSE i + 1)]

\* lyht_new taking the size as it was asked for
lyht_new_SizeAsAsked(size, val_equal, resize) ==
    [used |-> 0,
     size |-> size,
     val_equal |-> val_equal,
     resize |-> resize,
     first_free_rec |-> 0,
     buckets |-> [b \in 0..(size - 1) |-> EmptyBucket],
     recs |-> FreeChain(size, 0)]

\* lyht_new(size, val_size, val_equal, cb_data, resize)
lyht_new(size, val_equal, resize) ==
    LET sz == RoundUpPow2(IF size < LYHT_MIN_SIZE THEN LYHT_MIN_SIZE ELSE size, 1)
    IN  [used |-> 0,
         size |-> sz,
         val_equal |-> val_equal,
         resize |-> resize,
         first_free_rec |-> 0,
         buckets |-> [b \in 0..(sz - 1) |-> EmptyBucket],
         recs |-> FreeChain(sz, 0)]

\* hash & (size - 1), size being a power of two
BucketIdx(h, hash) == hash % h.size

\* lydict_val_eq comparing the pointers in place of strcmp
lydict_val_eq_SamePointer(m, val1, val2, mod) ==
    IF val1.value = NULL THEN FALSE
    ELSE IF val2.value = NULL THEN FALSE
    ELSE val1.value = val2.value

\* lydict_val_eq(val1_p, val2_p, mod, cb_data)
lydict_val_eq(m, val1, val2, mod) ==
    IF val1.value = NULL THEN FALSE
    ELSE IF val2.value = NULL THEN FALSE
    ELSE StrEq(m, val1.value, val2.value)

\* lydict_resize_val_eq answering 1 in the insert mode without strcmp
lydict_resize_val_eq_NoCompare(m, val1, val2, mod) ==
    IF val1.value = NULL THEN FALSE
    ELSE IF val2.value = NULL THEN FALSE
    ELSE IF mod THEN TRUE
    ELSE lydict_val_eq(m, val1, val2, mod)

\* lydict_resize_val_eq(val1_p, val2_p, mod, cb_data)
lydict_resize_val_eq(m, val1, val2, mod) ==
    IF val1.value = NULL THEN FALSE
    ELSE IF val2.value = NULL THEN FALSE
    ELSE IF mod THEN StrEq(m, val1.value, val2.value)
    ELSE lydict_val_eq(m, val1, val2, mod)

\* ht->val_equal(...): the callback the table currently holds
ValEqual(cb, m, val1, val2, mod) ==
    IF cb = "lydict_resize_val_eq" THEN lydict_resize_val_eq(m, val1, val2, mod)
    ELSE lydict_val_eq(m, val1, val2, mod)

\* LYHT_ITER_BUCKET_RECS: the record indexes of one chain, from idx on.
RECURSIVE ChainFrom(_, _, _)
ChainFrom(recs, idx, fuel) ==
    IF idx = LYHT_NO_RECORD \/ fuel = 0 THEN <<>>
    ELSE <<idx>> \o ChainFrom(recs, recs[idx].next, fuel - 1)

BucketChain(h, b) == ChainFrom(h.recs, h.buckets[b].first, h.size)

\* LYHT_ITER_ALL_RECS: every live record index, bucket by bucket.
RECURSIVE AllRecsFrom(_, _)
AllRecsFrom(h, b) ==
    IF b >= h.size THEN <<>> ELSE BucketChain(h, b) \o AllRecsFrom(h, b + 1)

AllRecs(h) == AllRecsFrom(h, 0)

\* Position in chain of the first record the callback calls equal, or 0.
RECURSIVE FirstMatch(_, _, _, _, _, _)
FirstMatch(h, m, chain, val, mod, k) ==
    IF k > Len(chain) THEN 0
    ELSE IF ValEqual(h.val_equal, m, val, h.recs[chain[k]].val, mod) THEN k
    ELSE FirstMatch(h, m, chain, val, mod, k + 1)

\* lyht_find(ht, val_p, hash, match_p): the return value and *match_p
\* (a record index, NO_RECORD standing for an unset pointer).
lyht_find_rec(h, m, val, hash, mod) ==
    LET chain == BucketChain(h, BucketIdx(h, hash))
        k == FirstMatch(h, m, chain, val, mod, 1)
    IN  IF k = 0 THEN [ret |-> LY_ENOTFOUND, match |-> LYHT_NO_RECORD, pos |-> 0]
        ELSE [ret |-> LY_SUCCESS, match |-> chain[k], pos |-> k]

lyht_find(h, m, val, hash) == lyht_find_rec(h, m, val, hash, FALSE)

\* Take the first free slot, copy the record into it and append it to the
\* chain of its bucket; used is incremented.
LinkRec(h, val, hash) ==
    LET idx == h.first_free_rec
        b == BucketIdx(h, hash)
        last == h.buckets[b].last
        recs1 == [h.recs EXCEPT ![idx] = HtRec(hash, LYHT_NO_RECORD, val)]
    IN  [h EXCEPT
            !.first_free_rec = h.recs[idx].next,
            !.buckets[b] = IF h.buckets[b].first = LYHT_NO_RECORD
                           THEN [first |-> idx, last |-> idx]
                           ELSE [first |-> h.buckets[b].first, last |-> idx],
            !.recs = IF h.buckets[b].first = LYHT_NO_RECORD THEN recs1
                     ELSE [recs1 EXCEPT ![last].next = idx],
            !.used = h.used + 1]

\* Reinsert the live records old[k..] of the table being resized into h; the
\* callback held by h (the resize one) is asked, in insert mode, whether an
\* equal record is already there.
RECURSIVE Rehash(_, _, _, _)
Rehash(h, m, old, k) ==
    IF k > Len(old) \/ h.first_free_rec = LYHT_NO_RECORD THEN h
    ELSE LET r == old[k]
             f == lyht_find_rec(h, m, r.val, r.hash, TRUE)
         IN  Rehash(IF f.ret = LY_SUCCESS THEN h ELSE LinkRec(h, r.val, r.hash),
                    m, old, k + 1)

\* lyht_resize: a fresh bucket array and record array of the new size, every
\* live record rehashed by its cached hash.
lyht_resize(h, m, newsize, resize_val_equal) ==
    LET live == AllRecs(h)
        old == [k \in 1..Len(live) |-> h.recs[live[k]]]
        fresh == [lyht_new(newsize, resize_val_equal, h.resize)
                     EXCEPT !.resize = h.resize]
    IN  [Rehash(fresh, m, old, 1) EXCEPT !.val_equal = h.val_equal]

\* lyht_insert_with_resize_cb answering LY_EMEM when its resize cannot
\* allocate, the record being linked all the same
lyht_insert_with_resize_cb_ResizeError(h, m, val, hash, resize_val_equal, oom) ==
    LET f == lyht_find(h, m, val, hash)
    IN  IF f.ret = LY_SUCCESS
        THEN [ret |-> LY_EEXIST, match |-> f.match, ht |-> h]
        ELSE IF h.first_free_rec = LYHT_NO_RECORD
        THEN [ret |-> LY_EMEM, match |-> LYHT_NO_RECORD, ht |-> h]
        ELSE LET h0 == LinkRec(h, val, hash)
                 r == (h0.used * LYHT_HUNDRED_PERCENTAGE) \div h0.size
                 h1 == IF h0.resize = 1 /\ r >= LYHT_FIRST_SHRINK_PERCENTAGE
                       THEN [h0 EXCEPT !.resize = 2] ELSE h0
                 due == h1.resize # 0 /\ r >= LYHT_ENLARGE_PERCENTAGE
                 grow == due /\ ~oom
                 h2 == IF grow THEN lyht_resize(h1, m, 2 * h1.size, resize_val_equal)
                       ELSE h1
             IN  [ret |-> IF due /\ oom THEN LY_EMEM ELSE LY_SUCCESS,
                  match |-> IF grow THEN lyht_find(h2, m, val, hash).match
                            ELSE h.first_free_rec,
                  ht |-> h2]

\* lyht_insert_with_resize_cb looking at the fill before the record is linked
lyht_insert_with_resize_cb_CheckBeforeLink(h, m, val, hash, resize_val_equal, oom) ==
    LET f == lyht_find(h, m, val, hash)
    IN  IF f.ret = LY_SUCCESS
        THEN [ret |-> LY_EEXIST, match |-> f.match, ht |-> h]
        ELSE IF h.first_free_rec = LYHT_NO_RECORD
        THEN [ret |-> LY_EMEM, match |-> LYHT_NO_RECORD, ht |-> h]
        ELSE LET r == (h.used * LYHT_HUNDRED_PERCENTAGE) \div h.size
                 h0 == LinkRec(h, val, hash)
                 h1 == IF h0.resize = 1 /\ r >= LYHT_FIRST_SHRINK_PERCENTAGE
                       THEN [h0 EXCEPT !.resize = 2] ELSE h0
                 grow == h1.resize # 0 /\ r >= LYHT_ENLARGE_PERCENTAGE /\ ~oom
                 h2 == IF grow THEN lyht_resize(h1, m, 2 * h1.size, resize_val_equal)
                       ELSE h1
             IN  [ret |-> LY_SUCCESS,
                  match |-> IF grow THEN lyht_find(h2, m, val, hash).match
                            ELSE h.first_free_rec,
                  ht |-> h2]

\* lyht_insert_with_resize_cb(ht, val_p, hash, resize_val_equal, match_p);
\* oom: the allocation of a resize fails.
lyht_insert_with_resize_cb(h, m, val, hash, resize_val_equal, oom) ==
    LET f == lyht_find(h, m, val, hash)
    IN  IF f.ret = LY_SUCCESS
        THEN [ret |-> LY_EEXIST, match |-> f.match, ht |-> h]
        ELSE IF h.first_free_rec = LYHT_NO_RECORD
        THEN [ret |-> LY_EMEM, match |-> LYHT_NO_RECORD, ht |-> h]
        ELSE LET h0 == LinkRec(h, val, hash)
                 r == (h0.used * LYHT_HUNDRED_PERCENTAGE) \div h0.size
                 h1 == IF h0.resize = 1 /\ r >= LYHT_FIRST_SHRINK_PERCENTAGE
                       THEN [h0 EXCEPT !.resize = 2] ELSE h0
                 grow == h1.resize # 0 /\ r >= LYHT_ENLARGE_PERCENTAGE /\ ~oom
                 h2 == IF grow THEN lyht_resize(h1, m, 2 * h1.size, resize_val_equal)
                       ELSE h1
             IN  [ret |-> LY_SUCCESS,
                  match |-> IF grow THEN lyht_find(h2, m, val, hash).match
                            ELSE h.first_free_rec,
                  ht |-> h2]

\* Unlink the record at position pos of the chain of bucket b and put its
\* slot at the head of the free list; used is decremented.
UnlinkRec(h, b, pos) ==
    LET chain == BucketChain(h, b)
        idx == chain[pos]
        prev == IF pos = 1 THEN LYHT_NO_RECORD ELSE chain[pos - 1]
        next == h.recs[idx].next
        recs1 == IF pos = 1 THEN h.recs ELSE [h.recs EXCEPT ![prev].next = next]
    IN  [h EXCEPT
            !.buckets[b] = [first |-> IF pos = 1 THEN next ELSE h.buckets[b].first,
                            last |-> IF pos = Len(chain) THEN prev
                                     ELSE h.buckets[b].last],
            !.recs = [recs1 EXCEPT ![idx] = FreeRec(h.first_free_rec)],
            !.first_free_rec = idx,
            !.used = h.used - 1]

\* lyht_remove_with_resize_cb(ht, val_p, hash, resize_val_equal); oom: the
\* allocation of a resize fails.  Once shrinking is enabled, a table less
\* than LYHT_SHRINK_PERCENTAGE full and above the minimum is halved.
lyht_remove_with_resize_cb(h, m, val, hash, resize_val_equal, oom) ==
    LET f == lyht_find(h, m, val, hash)
    IN  IF f.ret # LY_SUCCESS THEN [ret |-> LY_ENOTFOUND, ht |-> h]
        ELSE LET h1 == UnlinkRec(h, BucketIdx(h, hash), f.pos)
                 r == (h1.used * LYHT_HUNDRED_PERCENTAGE) \div h1.size
                 shrink == /\ h1.resize = 2 /\ r < LYHT_SHRINK_PERCENTAGE
                           /\ h1.size > LYHT_MIN_SIZE /\ ~oom
             IN  [ret |-> LY_SUCCESS,
                  ht |-> IF shrink
                         THEN lyht_resize(h1, m, h1.size \div 2, resize_val_equal)
                         ELSE h1]

\* ------------------------------------------------------------------ heap
UnallocCell == [str |-> <<>>, st |-> "unalloc", frees |-> 0, interned |-> FALSE]

HasFreeCell(m) == \E p \in HeapPtrs : m[p].st = "unalloc"

\* malloc: the next buffer never handed out before
NextCell(m) == CHOOSE p \in HeapPtrs :
                   /\ m[p].st = "unalloc"
                   /\ \A q \in HeapPtrs : m[q].st = "unalloc" => p <= q

\* malloc + memcpy + terminator
AllocStr(m, bytes) == [m EXCEPT ![NextCell(m)] =
                          [str |-> bytes, st |-> "live", frees |-> 0, interned |-> FALSE]]

\* free(p); frees counts up to a second free of the same buffer
Free(m, p) == [m EXCEPT ![p].st = "freed", ![p].frees = IF @ < 2 THEN @ + 1 ELSE @]

\* ------------------------------------------------------------ dictionary

InsertOps == {"lydict_insert", "lydict_insert_zc"}

IdleThread ==
    [pc |-> "idle", op |-> "none", key |-> <<>>, value |-> NULL, hash |-> 0,
     ret |-> LY_SUCCESS, match |-> LYHT_NO_RECORD, val_p |-> NULL, out |-> NULL, rc |-> 0,
     log |-> "none", ctx |-> TRUE, str_p |-> TRUE, terr |-> "none",
     warned |-> {}, ndebug |-> FALSE]

NoHist == [refs |-> 0, ptrs |-> {}]

\* lydict_init asking lyht_new for a table that may shrink from the start
lydict_init_ShrinkEnabled == lyht_new(TableStartSize, "lydict_val_eq", 2)

\* lydict_init(dict); TableStartSize stands for LYDICT_MIN_SIZE (1024), scaled
\* down so that a handful of strings fills the table.
lydict_init == lyht_new(TableStartSize, "lydict_val_eq", 1)

\* A buffer in use elsewhere in the program.
BusyCell == [UnallocCell EXCEPT !.st = "live"]

Init ==
    /\ ht = lydict_init
    /\ lock = 0
    /\ mem = [p \in HeapPtrs |-> IF p <= MaxAlloc THEN UnallocCell ELSE BusyCell]
    /\ th = [t \in Threads |-> IdleThread]
    /\ hist = [c \in Contents |-> NoHist]
    /\ faults = 0

\* lydict_insert(ctx, value, len, str_p) up to the lock: the length, the
\* private copy value_copy.
CallInsert(t, value, len) ==
    /\ th[t].pc = "idle"
    /\ HasFreeCell(mem)
    /\ LET n == IF len = 0 THEN strlen(mem, value) ELSE len
           bytes == SubSeq(Str(mem, value), 1, n)
       IN  /\ mem' = AllocStr(mem, bytes)
           /\ th' = [th EXCEPT ![t] = [IdleThread EXCEPT
                         !.pc = "lock", !.op = "lydict_insert", !.key = bytes,
                         !.value = NextCell(mem)]]
    /\ UNCHANGED <<ht, lock, hist, faults>>

\* CallInsertZc computing the hash before pthread_mutex_lock
CallInsertZc_HashEarly(t, bytes) ==
    /\ th[t].pc = "idle"
    /\ HasFreeCell(mem)
    /\ mem' = AllocStr(mem, bytes)
    /\ th' = [th EXCEPT ![t] = [IdleThread EXCEPT
                  !.pc = "lock", !.op = "lydict_insert_zc", !.key = bytes,
                  !.value = NextCell(mem), !.hash = lyht_hash(bytes, Len(bytes))]]
    /\ UNCHANGED <<ht, lock, hist, faults>>

\* lydict_insert_zc(ctx, value, str_p) up to the lock; value is a buffer the
\* caller has allocated and filled.
CallInsertZc(t, bytes) ==
    /\ th[t].pc = "idle"
    /\ HasFreeCell(mem)
    /\ mem' = AllocStr(mem, bytes)
    /\ th' = [th EXCEPT ![t] = [IdleThread EXCEPT
                  !.pc = "lock", !.op = "lydict_insert_zc", !.key = bytes,
                  !.value = NextCell(mem)]]
    /\ UNCHANGED <<ht, lock, hist, faults>>

\* CallRemove going on to lyht_find without pthread_mutex_lock
CallRemove_NoLock(t, value) ==
    /\ th[t].pc = "idle"
    /\ th' = [th EXCEPT ![t] = [IdleThread EXCEPT
                  !.pc = "rem_find", !.op = "lydict_remove", !.key = Str(mem, value),
                  !.value = value,
                  !.hash = lyht_hash(Str(mem, value), strlen(mem, value))]]
    /\ UNCHANGED <<ht, lock, mem, hist, faults>>

\* lydict_remove(ctx, value) up to the lock: strlen, lyht_hash, the probe.
CallRemove(t, value) ==
    /\ th[t].pc = "idle"
    /\ th' = [th EXCEPT ![t] = [IdleThread EXCEPT
                  !.pc = "lock", !.op = "lydict_remove", !.key = Str(mem, value),
                  !.value = value,
                  !.hash = lyht_hash(Str(mem, value), strlen(mem, value))]]
    /\ UNCHANGED <<ht, lock, mem, hist, faults>>

\* Lock that does not wait for the mutex to be free
Lock_NoWait(t) ==
    /\ th[t].pc = "lock"
    /\ lock' = t
    /\ th' = [th EXCEPT ![t].pc =
                  IF th[t].op = "lydict_remove" THEN "rem_find" ELSE "ins_table"]
    /\ UNCHANGED <<ht, mem, hist, faults>>

\* pthread_mutex_lock(&ctx->dict.lock)
Lock(t) ==
    /\ th[t].pc = "lock"
    /\ lock = 0
    /\ lock' = t
    /\ th' = [th EXCEPT ![t].pc =
                  IF th[t].op = "lydict_remove" THEN "rem_find" ELSE "ins_table"]
    /\ UNCHANGED <<ht, mem, hist, faults>>

\* DictInsertTable hashing the address of the buffer instead of its bytes
DictInsertTable_HashAddress(t, oom) ==
    /\ th[t].pc = "ins_table"
    /\ LET hash == th[t].value
           r == lyht_insert_with_resize_cb(ht, mem, DictRec(th[t].value, 1), hash,
                                           "lydict_resize_val_eq", oom)
       IN  /\ ht' = r.ht
           /\ th' = [th EXCEPT ![t].pc = "ins_result", ![t].hash = hash,
                                ![t].ret = r.ret, ![t].match = r.match]
    /\ UNCHANGED <<lock, mem, hist, faults>>

\* dict_insert: the hash, the probe {value, 1}, lyht_insert_with_resize_cb
DictInsertTable(t, oom) ==
    /\ th[t].pc = "ins_table"
    /\ LET hash == lyht_hash(Str(mem, th[t].value), strlen(mem, th[t].value))
           r == lyht_insert_with_resize_cb(ht, mem, DictRec(th[t].value, 1), hash,
                                           "lydict_resize_val_eq", oom)
       IN  /\ ht' = r.ht
           /\ th' = [th EXCEPT ![t].pc = "ins_result", ![t].hash = hash,
                                ![t].ret = r.ret, ![t].match = r.match]
    /\ UNCHANGED <<lock, mem, hist, faults>>

\* DictInsertResult turning an error of the table into LY_EINT
DictInsertResult_Translated(t) ==
    /\ th[t].pc = "ins_result"
    /\ IF th[t].ret = LY_EEXIST
       THEN /\ th' = [th EXCEPT ![t].pc = "ins_store",
                                 ![t].rc = ht.recs[th[t].match].val.refcount]
            /\ UNCHANGED mem
       ELSE IF th[t].ret # LY_SUCCESS
       THEN /\ mem' = Free(mem, th[t].value)
            /\ th' = [th EXCEPT ![t].pc = "unlock", ![t].ret = LY_EINT,
                                 ![t].log = "LOGINT"]
       ELSE /\ mem' = [mem EXCEPT ![th[t].value].interned = TRUE]
            /\ th' = [th EXCEPT ![t].pc = "unlock",
                                 ![t].out = ht.recs[th[t].match].val.value]
    /\ UNCHANGED <<ht, lock, hist, faults>>

\* dict_insert after the table call: on a duplicate the refcount of the match
\* is loaded for the increment; on an error the buffer is freed and the error
\* returned; on a fresh insert *str_p is the value of the new record.
DictInsertResult(t) ==
    /\ th[t].pc = "ins_result"
    /\ IF th[t].ret = LY_EEXIST
       THEN /\ th' = [th EXCEPT ![t].pc = "ins_store",
                                 ![t].rc = ht.recs[th[t].match].val.refcount]
            /\ UNCHANGED mem
       ELSE IF th[t].ret # LY_SUCCESS
       THEN /\ mem' = Free(mem, th[t].value)
            /\ th' = [th EXCEPT ![t].pc = "unlock"]
       ELSE /\ mem' = [mem EXCEPT ![th[t].value].interned = TRUE]
            /\ th' = [th EXCEPT ![t].pc = "unlock",
                                 ![t].out = ht.recs[th[t].match].val.value]
    /\ UNCHANGED <<ht, lock, hist, faults>>

\* DictInsertStore with the free of the unused buffer left out
DictInsertStore_NoFree(t) ==
    /\ th[t].pc = "ins_store"
    /\ ht' = [ht EXCEPT !.recs[th[t].match].val.refcount = (th[t].rc + 1) % UINT_MOD]
    /\ th' = [th EXCEPT ![t].pc = "unlock", ![t].ret = LY_SUCCESS,
                         ![t].out = ht.recs[th[t].match].val.value]
    /\ UNCHANGED <<lock, mem, hist, faults>>

\* DictInsertStore with the increment of the refcount left out
DictInsertStore_NoIncrement(t) ==
    /\ th[t].pc = "ins_store"
    /\ mem' = Free(mem, th[t].value)
    /\ th' = [th EXCEPT ![t].pc = "unlock", ![t].ret = LY_SUCCESS,
                         ![t].out = ht.recs[th[t].match].val.value]
    /\ UNCHANGED <<ht, lock, hist, faults>>

\* dict_insert on a duplicate: match->refcount++ stored, free(value),
\* ret = LY_SUCCESS, *str_p = match->value
DictInsertStore(t) ==
    /\ th[t].pc = "ins_store"
    /\ ht' = [ht EXCEPT !.recs[th[t].match].val.refcount = (th[t].rc + 1) % UINT_MOD]
    /\ mem' = Free(mem, th[t].value)
    /\ th' = [th EXCEPT ![t].pc = "unlock", ![t].ret = LY_SUCCESS,
                         ![t].out = ht.recs[th[t].match].val.value]
    /\ UNCHANGED <<lock, hist, faults>>

\* lydict_remove: lyht_find of the probe {value, 0}
RemoveFind(t) ==
    /\ th[t].pc = "rem_find"
    /\ LET f == lyht_find(ht, mem, DictRec(th[t].value, 0), th[t].hash)
       IN  th' = [th EXCEPT ![t].pc = "rem_found", ![t].ret = f.ret,
                             ![t].match = f.match]
    /\ UNCHANGED <<ht, lock, mem, hist, faults>>

\* RemoveFound returning on a missing string without the jump to the unlock
RemoveFound_ReturnLocked(t) ==
    /\ th[t].pc = "rem_found"
    /\ IF th[t].ret = LY_SUCCESS
       THEN IF th[t].match = LYHT_NO_RECORD
            THEN th' = [th EXCEPT ![t].pc = "unlock", ![t].log = "LOGINT"]
            ELSE th' = [th EXCEPT ![t].pc = "rem_store",
                                  ![t].rc = ht.recs[th[t].match].val.refcount]
       ELSE th' = [th EXCEPT ![t].pc = "return",
                      ![t].log = IF th[t].ret = LY_ENOTFOUND THEN "LOGERR" ELSE "LOGINT"]
    /\ UNCHANGED <<ht, lock, mem, hist, faults>>

\* RemoveFound with a missing string passed over in silence as a success
RemoveFound_NotFoundIgnored(t) ==
    /\ th[t].pc = "rem_found"
    /\ IF th[t].ret = LY_SUCCESS /\ th[t].match # LYHT_NO_RECORD
       THEN th' = [th EXCEPT ![t].pc = "rem_store",
                             ![t].rc = ht.recs[th[t].match].val.refcount]
       ELSE th' = [th EXCEPT ![t].pc = "unlock", ![t].ret = LY_SUCCESS]
    /\ UNCHANGED <<ht, lock, mem, hist, faults>>

\* lydict_remove: the branch on the result of lyht_find; the refcount of the
\* match is loaded for the decrement
RemoveFound(t) ==
    /\ th[t].pc = "rem_found"
    /\ IF th[t].ret = LY_SUCCESS
       THEN IF th[t].match = LYHT_NO_RECORD
            THEN th' = [th EXCEPT ![t].pc = "unlock", ![t].log = "LOGINT"]
            ELSE th' = [th EXCEPT ![t].pc = "rem_store",
                                  ![t].rc = ht.recs[th[t].match].val.refcount]
       ELSE th' = [th EXCEPT ![t].pc = "unlock",
                      ![t].log = IF th[t].ret = LY_ENOTFOUND THEN "LOGERR" ELSE "LOGINT"]
    /\ UNCHANGED <<ht, lock, mem, hist, faults>>

\* RemoveStore with the decrement lost: the loaded refcount is stored back
RemoveStore_NoDecrement(t) ==
    /\ th[t].pc = "rem_store"
    /\ LET rc == th[t].rc
       IN  /\ ht' = [ht EXCEPT !.recs[th[t].match].val.refcount = rc]
           /\ th' = [th EXCEPT
                  ![t].pc = IF rc = 0 THEN "rem_table" ELSE "unlock",
                  ![t].val_p = IF rc = 0 THEN ht.recs[th[t].match].val.value ELSE NULL]
    /\ UNCHANGED <<lock, mem, hist, faults>>

\* RemoveStore with the test of the refcount against zero left out
RemoveStore_NoZeroTest(t) ==
    /\ th[t].pc = "rem_store"
    /\ LET rc == (th[t].rc - 1) % UINT_MOD
       IN  /\ ht' = [ht EXCEPT !.recs[th[t].match].val.refcount = rc]
           /\ th' = [th EXCEPT ![t].pc = "rem_table",
                                ![t].val_p = ht.recs[th[t].match].val.value]
    /\ UNCHANGED <<lock, mem, hist, faults>>

\* lydict_remove: match->refcount-- stored; at zero val_p = match->value and
\* the record is to be removed
RemoveStore(t) ==
    /\ th[t].pc = "rem_store"
    /\ LET rc == (th[t].rc - 1) % UINT_MOD
       IN  /\ ht' = [ht EXCEPT !.recs[th[t].match].val.refcount = rc]
           /\ th' = [th EXCEPT
                  ![t].pc = IF rc = 0 THEN "rem_table" ELSE "unlock",
                  ![t].val_p = IF rc = 0 THEN ht.recs[th[t].match].val.value ELSE NULL]
    /\ UNCHANGED <<lock, mem, hist, faults>>

\* RemoveTable with the call of lyht_remove_with_resize_cb left out
RemoveTable_NoRemove(t) ==
    /\ th[t].pc = "rem_table"
    /\ th' = [th EXCEPT ![t].pc = "rem_free", ![t].ret = LY_SUCCESS]
    /\ UNCHANGED <<ht, lock, mem, hist, faults>>

\* lydict_remove: lyht_remove_with_resize_cb of the record whose refcount
\* reached zero
RemoveTable(t) ==
    /\ th[t].pc = "rem_table"
    /\ LET r == lyht_remove_with_resize_cb(ht, mem, DictRec(th[t].value, 0),
                                           th[t].hash, "lydict_resize_val_eq", FALSE)
       IN  /\ ht' = r.ht
           /\ th' = [th EXCEPT ![t].pc = "rem_free", ![t].ret = r.ret]
    /\ UNCHANGED <<lock, mem, hist, faults>>

\* lydict_remove: free(val_p), then the check of the result of the table
RemoveFree(t) ==
    /\ th[t].pc = "rem_free"
    /\ mem' = Free(mem, th[t].val_p)
    /\ th' = [th EXCEPT ![t].pc = "unlock",
                         ![t].log = IF th[t].ret # LY_SUCCESS THEN "LOGINT" ELSE @]
    /\ UNCHANGED <<ht, lock, hist, faults>>

\* What the observer records of a call when its outcome is final; it follows
\* the calls up to the first failure of a table call.
Observe(h, t) ==
    LET c == th[t].key
    IN  IF th[t].ret # LY_SUCCESS \/ faults > 0 THEN h
        ELSE IF th[t].op = "lydict_remove"
        THEN [h EXCEPT ![c].refs = @ - 1,
                       ![c].ptrs = IF h[c].refs - 1 = 0 THEN {} ELSE @]
        ELSE [h EXCEPT ![c].refs = @ + 1, ![c].ptrs = @ \cup {th[t].out}]

\* pthread_mutex_unlock(&ctx->dict.lock)
Unlock(t) ==
    /\ th[t].pc = "unlock"
    /\ lock' = IF lock = t THEN 0 ELSE lock
    /\ th' = [th EXCEPT ![t].pc = "return"]
    /\ hist' = Observe(hist, t)
    /\ UNCHANGED <<ht, mem, faults>>

\* return result / return ret
Return(t) ==
    /\ th[t].pc = "return"
    /\ th' = [th EXCEPT ![t] = IdleThread]
    /\ UNCHANGED <<ht, lock, mem, hist, faults>>

Next ==
    \E t \in Threads :
        \/ \E v \in CallerPtrs : \E len \in 0..strlen(mem, v) : CallInsert(t, v, len)
        \/ \E v \in CallerPtrs : CallInsertZc(t, Str(mem, v))
        \/ \E v \in CallerPtrs : CallRemove(t, v)
        \/ Lock(t)
        \/ DictInsertTable(t, FALSE)
        \/ DictInsertResult(t)
        \/ DictInsertStore(t)
        \/ RemoveFind(t)
        \/ RemoveFound(t)
        \/ RemoveStore(t)
        \/ RemoveTable(t)
        \/ RemoveFree(t)
        \/ Unlock(t)
        \/ Return(t)

Spec == Init /\ [][Next]_vars

\* The runs in which no remove is ever issued.
NextInsert ==
    \E t \in Threads :
        \/ \E v \in CallerPtrs : \E len \in 0..strlen(mem, v) : CallInsert(t, v, len)
        \/ \E v \in CallerPtrs : CallInsertZc(t, Str(mem, v))
        \/ Lock(t)
        \/ DictInsertTable(t, FALSE)
        \/ DictInsertResult(t)
        \/ DictInsertStore(t)
        \/ Unlock(t)
        \/ Return(t)

SpecInsert == Init /\ [][NextInsert]_vars

\* ----------------------------------------------------- a table that grows
\* The heap after lydict_insert_zc of the first k strings of Preloaded.
PreMem(k) ==
    [p \in HeapPtrs |->
        IF p <= MaxAlloc THEN UnallocCell
        ELSE IF p - MaxAlloc <= k
        THEN [str |-> CallerStr[-Preloaded[p - MaxAlloc]], st |-> "live",
              frees |-> 0, interned |-> TRUE]
        ELSE BusyCell]

\* The table after lydict_insert_zc of the first k strings of Preloaded.
RECURSIVE PreTable(_)
PreTable(k) ==
    IF k = 0 THEN lydict_init
    ELSE LET bytes == CallerStr[-Preloaded[k]]
             before == PreTable(k - 1)
         IN  IF before.first_free_rec = LYHT_NO_RECORD THEN before
             ELSE lyht_insert_with_resize_cb(before, PreMem(k),
                      DictRec(MaxAlloc + k, 1), lyht_hash(bytes, Len(bytes)),
                      "lydict_resize_val_eq", FALSE).ht

\* What the observer has recorded after these k calls.
PreHist(k) ==
    [c \in Contents |->
        IF \E j \in 1..k : CallerStr[-Preloaded[j]] = c
        THEN [refs |-> 1,
              ptrs |-> {MaxAlloc + j : j \in {i \in 1..k : CallerStr[-Preloaded[i]] = c}}]
        ELSE NoHist]

\* The number of strings that fill a table of the given size to one record
\* below the growth to twice that size (no more than Preloaded has).
PreloadBelow(size) ==
    LET n == (LYHT_ENLARGE_PERCENTAGE * size + LYHT_HUNDRED_PERCENTAGE - 1)
                 \div LYHT_HUNDRED_PERCENTAGE - 1
    IN  IF n > Len(Preloaded) THEN Len(Preloaded) ELSE n

GrowPreload == PreloadBelow(lydict_init.size)

InitGrow ==
    /\ ht = PreTable(GrowPreload)
    /\ lock = 0
    /\ mem = PreMem(GrowPreload)
    /\ th = [t \in Threads |-> IdleThread]
    /\ hist = PreHist(GrowPreload)
    /\ faults = 0

\* The calls of Spec on a dictionary that already holds the strings of
\* Preloaded; the allocation of a resize may fail.
NextGrow ==
    \E t \in Threads :
        \/ \E v \in CallerPtrs : \E len \in 0..strlen(mem, v) : CallInsert(t, v, len)
        \/ \E v \in CallerPtrs : CallInsertZc(t, Str(mem, v))
        \/ \E v \in CallerPtrs : CallRemove(t, v)
        \/ Lock(t)
        \/ \E oom \in BOOLEAN : DictInsertTable(t, oom)
        \/ DictInsertResult(t)
        \/ DictInsertStore(t)
        \/ RemoveFind(t)
        \/ RemoveFound(t)
        \/ RemoveStore(t)
        \/ RemoveTable(t)
        \/ RemoveFree(t)
        \/ Unlock(t)
        \/ Return(t)

SpecGrow == InitGrow /\ [][NextGrow]_vars

\* ------------------------------------------ a table that grows and shrinks
\* The strings of Preloaded the callers of these runs release.
Releasable == {Preloaded[k] : k \in 1..2}

\* The number of strings that leave a fresh table one record below the
\* fill at which shrinking is enabled (no more than Preloaded has).
WatermarkPreload ==
    LET n == (LYHT_FIRST_SHRINK_PERCENTAGE * lydict_init.size
                 + LYHT_HUNDRED_PERCENTAGE - 1) \div LYHT_HUNDRED_PERCENTAGE - 1
    IN  IF n > Len(Preloaded) THEN Len(Preloaded) ELSE n

\* A dictionary that holds the strings of Preloaded up to one record below
\* the fill that enables shrinking, or one record below its first or its
\* second growth.
InitResize ==
    \E k \in {WatermarkPreload, GrowPreload, PreloadBelow(2 * lydict_init.size)} :
        /\ ht = PreTable(k)
        /\ lock = 0
        /\ mem = PreMem(k)
        /\ th = [t \in Threads |-> IdleThread]
        /\ hist = PreHist(k)
        /\ faults = 0

\* The calls of one thread on that dictionary, one after the other.
NextResize ==
    \E t \in Threads :
        /\ \A u \in Threads : u # t => th[u].pc = "idle" /\ u > t
        /\ \/ \E v \in CallerPtrs : \E len \in 0..strlen(mem, v) : CallInsert(t, v, len)
           \/ \E v \in CallerPtrs : CallInsertZc(t, Str(mem, v))
           \/ \E v \in CallerPtrs \cup Releasable : CallRemove(t, v)
           \/ Lock(t)
           \/ DictInsertTable(t, FALSE)
           \/ DictInsertResult(t)
           \/ DictInsertStore(t)
           \/ RemoveFind(t)
           \/ RemoveFound(t)
           \/ RemoveStore(t)
           \/ RemoveTable(t)
           \/ RemoveFree(t)
           \/ Unlock(t)
           \/ Return(t)

SpecResize == InitResize /\ [][NextResize]_vars

\* ------------------------------------------------- table calls that fail
\* The error codes a table call can return besides LY_EEXIST and
\* LY_ENOTFOUND; a call that fails leaves the table as it was.
TableErrors == {LY_EMEM}

\* dict_insert: lyht_insert_with_resize_cb returns an error
DictInsertTableError(t) ==
    /\ faults < MaxFaults
    /\ faults' = faults + 1
    /\ th[t].pc = "ins_table"
    /\ \E e \in TableErrors :
           th' = [th EXCEPT ![t].pc = "ins_result", ![t].ret = e, ![t].terr = e,
                    ![t].hash = lyht_hash(Str(mem, th[t].value), strlen(mem, th[t].value))]
    /\ UNCHANGED <<ht, lock, mem, hist>>

\* lydict_remove: lyht_find returns an error
RemoveFindError(t) ==
    /\ faults < MaxFaults
    /\ faults' = faults + 1
    /\ th[t].pc = "rem_find"
    /\ \E e \in TableErrors :
           th' = [th EXCEPT ![t].pc = "rem_found", ![t].ret = e, ![t].terr = e]
    /\ UNCHANGED <<ht, lock, mem, hist>>

\* lydict_remove: lyht_find returns LY_SUCCESS and leaves match unset
RemoveFindNull(t) ==
    /\ faults < MaxFaults
    /\ faults' = faults + 1
    /\ th[t].pc = "rem_find"
    /\ th' = [th EXCEPT ![t].pc = "rem_found", ![t].ret = LY_SUCCESS,
                         ![t].match = LYHT_NO_RECORD]
    /\ UNCHANGED <<ht, lock, mem, hist>>

\* lydict_remove: lyht_remove_with_resize_cb returns an error
RemoveTableError(t) ==
    /\ faults < MaxFaults
    /\ faults' = faults + 1
    /\ th[t].pc = "rem_table"
    /\ \E e \in TableErrors :
           th' = [th EXCEPT ![t].pc = "rem_free", ![t].ret = e, ![t].terr = e]
    /\ UNCHANGED <<ht, lock, mem, hist>>

\* A step of a call in progress other than the wait for the mutex.
Advance(t) ==
    \/ DictInsertTable(t, FALSE)
    \/ DictInsertTableError(t)
    \/ DictInsertResult(t)
    \/ DictInsertStore(t)
    \/ RemoveFind(t)
    \/ RemoveFindError(t)
    \/ RemoveFindNull(t)
    \/ RemoveFound(t)
    \/ RemoveStore(t)
    \/ RemoveTable(t)
    \/ RemoveTableError(t)
    \/ RemoveFree(t)
    \/ Unlock(t)
    \/ Return(t)

\* The one string the callers of these runs pass.
FaultPtrs == {-1}

NextFault ==
    \E t \in Threads :
        \/ \E v \in FaultPtrs : \E len \in 0..strlen(mem, v) : CallInsert(t, v, len)
        \/ \E v \in FaultPtrs : CallInsertZc(t, Str(mem, v))
        \/ \E v \in FaultPtrs : CallRemove(t, v)
        \/ Lock(t)
        \/ Advance(t)

\* Calls on a table that can fail, threads that keep running, and a fair
\* mutex: a thread that waits for it over and over gets it.
\* As Init, the last buffer of the heap being in use elsewhere in the program.
InitFault ==
    /\ ht = lydict_init
    /\ lock = 0
    /\ mem = [p \in HeapPtrs |-> IF p < MaxAlloc THEN UnallocCell ELSE BusyCell]
    /\ th = [t \in Threads |-> IdleThread]
    /\ hist = [c \in Contents |-> NoHist]
    /\ faults = 0

SpecFault ==
    /\ InitFault
    /\ [][NextFault]_vars
    /\ \A t \in Threads : WF_vars(Advance(t)) /\ SF_vars(Lock(t))

\* ------------------------------------------ calls that end before the lock
\* What the caller's *str_p holds before a call: a pointer to no string of
\* the dictionary.
SlotBefore == -1 - Len(CallerStr)

\* CallInsertArgs taking a null value for an invalid argument
CallInsertArgs_NullValueInvalid(t, op, ctx, str_p, value) ==
    /\ th[t].pc = "idle"
    /\ (~ctx \/ ~str_p \/ value = NULL)
    /\ th' = [th EXCEPT ![t] = [IdleThread EXCEPT
                  !.pc = "return", !.op = op, !.ctx = ctx, !.str_p = str_p,
                  !.value = value, !.ret = LY_EINVAL, !.log = "LOGARG",
                  !.out = SlotBefore]]
    /\ UNCHANGED <<ht, lock, mem, hist, faults>>

\* lydict_insert / lydict_insert_zc: LY_CHECK_ARG_RET(ctx, ctx, str_p,
\* LY_EINVAL), then the null value: *str_p = NULL, return LY_SUCCESS
CallInsertArgs(t, op, ctx, str_p, value) ==
    /\ th[t].pc = "idle"
    /\ (~ctx \/ ~str_p \/ value = NULL)
    /\ th' = [th EXCEPT ![t] = [IdleThread EXCEPT
                  !.pc = "return", !.op = op, !.ctx = ctx, !.str_p = str_p,
                  !.value = value,
                  !.ret = IF ctx /\ str_p THEN LY_SUCCESS ELSE LY_EINVAL,
                  !.log = IF ctx /\ str_p THEN "none" ELSE "LOGARG",
                  !.out = IF ctx /\ str_p THEN NULL ELSE SlotBefore]]
    /\ UNCHANGED <<ht, lock, mem, hist, faults>>

\* lydict_remove: if (!ctx || !value) return LY_SUCCESS
CallRemoveArgs(t, ctx, value) ==
    /\ th[t].pc = "idle"
    /\ (~ctx \/ value = NULL)
    /\ th' = [th EXCEPT ![t] = [IdleThread EXCEPT
                  !.pc = "return", !.op = "lydict_remove", !.ctx = ctx,
                  !.value = value, !.ret = LY_SUCCESS]]
    /\ UNCHANGED <<ht, lock, mem, hist, faults>>

\* CallInsertOom testing value_copy only after pthread_mutex_lock
CallInsertOom_Locked(t, value, len) ==
    /\ th[t].pc = "idle"
    /\ lock = 0
    /\ lock' = t
    /\ LET n == IF len = 0 THEN strlen(mem, value) ELSE len
       IN  th' = [th EXCEPT ![t] = [IdleThread EXCEPT
                     !.pc = "return", !.op = "lydict_insert",
                     !.key = SubSeq(Str(mem, value), 1, n), !.value = NULL,
                     !.ret = LY_EMEM, !.log = "LOGMEM", !.out = SlotBefore]]
    /\ UNCHANGED <<ht, mem, hist, faults>>

\* lydict_insert: malloc(len + 1) returns NULL: LOGMEM, return LY_EMEM
CallInsertOom(t, value, len) ==
    /\ th[t].pc = "idle"
    /\ LET n == IF len = 0 THEN strlen(mem, value) ELSE len
       IN  th' = [th EXCEPT ![t] = [IdleThread EXCEPT
                     !.pc = "return", !.op = "lydict_insert",
                     !.key = SubSeq(Str(mem, value), 1, n), !.value = NULL,
                     !.ret = LY_EMEM, !.log = "LOGMEM", !.out = SlotBefore]]
    /\ UNCHANGED <<ht, lock, mem, hist, faults>>

\* The calls on one string, those that end before the lock among them.
NextArgs ==
    \E t \in Threads :
        \/ \E v \in FaultPtrs : \E len \in 0..strlen(mem, v) : CallInsert(t, v, len)
        \/ \E v \in FaultPtrs : CallInsertZc(t, Str(mem, v))
        \/ \E v \in FaultPtrs : CallRemove(t, v)
        \/ \E op \in InsertOps : \E ctx, str_p \in BOOLEAN :
               \E v \in FaultPtrs \cup {NULL} : CallInsertArgs(t, op, ctx, str_p, v)
        \/ \E ctx \in BOOLEAN : \E v \in FaultPtrs \cup {NULL} : CallRemoveArgs(t, ctx, v)
        \/ \E v \in FaultPtrs : \E len \in 0..strlen(mem, v) : CallInsertOom(t, v, len)
        \/ Lock(t)
        \/ DictInsertTable(t, FALSE)
        \/ DictInsertResult(t)
        \/ DictInsertStore(t)
        \/ RemoveFind(t)
        \/ RemoveFound(t)
        \/ RemoveStore(t)
        \/ RemoveTable(t)
        \/ RemoveFree(t)
        \/ Unlock(t)
        \/ Return(t)

SpecArgs == InitFault /\ [][NextArgs]_vars

\* ------------------------------------------------------------- teardown
\* pthread_mutex_destroy: the value of lock once the mutex is gone
Destroyed == -1

\* lyht_free(ht, NULL): buckets and records released, payloads untouched
FreedTable(h) ==
    [h EXCEPT !.used = 0, !.size = 0, !.first_free_rec = LYHT_NO_RECORD,
              !.buckets = [b \in {} |-> EmptyBucket],
              !.recs = [i \in {} |-> FreeRec(LYHT_NO_RECORD)]]

\* rec->hits of slot i: 1 for a slot that holds a record
Hits(h, i) == IF \E k \in 1..Len(AllRecs(h)) : AllRecs(h)[k] = i THEN 1 ELSE 0

\* The slots lydict_clean warns about
LeakedSlots(h) == {i \in 0..(h.size - 1) : Hits(h, i) = 1}

\* free(p) for every p of S
FreeAll(m, S) == [p \in DOMAIN m |-> IF p \in S THEN Free(m, p)[p] ELSE m[p]]

\* Clean freeing the leaked strings whatever the build
Clean_AlwaysFrees(t, ndebug) ==
    /\ lock = 0
    /\ \A u \in Threads : th[u].pc = "idle"
    /\ LET leaked == {ht.recs[i].val.value : i \in LeakedSlots(ht)}
       IN  /\ th' = [th EXCEPT ![t] = [IdleThread EXCEPT
                         !.pc = "return", !.op = "lydict_clean", !.ndebug = ndebug,
                         !.warned = leaked,
                         !.log = IF leaked = {} THEN "none" ELSE "LOGWRN"]]
           /\ mem' = FreeAll(mem, leaked)
    /\ ht' = FreedTable(ht)
    /\ lock' = Destroyed
    /\ UNCHANGED <<hist, faults>>

\* lydict_clean(dict), called when no thread uses the dictionary any more:
\* a warning for every slot with a record, free of its string in a build
\* with NDEBUG, then lyht_free and pthread_mutex_destroy
Clean(t, ndebug) ==
    /\ lock = 0
    /\ \A u \in Threads : th[u].pc = "idle"
    /\ LET leaked == {ht.recs[i].val.value : i \in LeakedSlots(ht)}
       IN  /\ th' = [th EXCEPT ![t] = [IdleThread EXCEPT
                         !.pc = "return", !.op = "lydict_clean", !.ndebug = ndebug,
                         !.warned = leaked,
                         !.log = IF leaked = {} THEN "none" ELSE "LOGWRN"]]
           /\ mem' = IF ndebug THEN FreeAll(mem, leaked) ELSE mem
    /\ ht' = FreedTable(ht)
    /\ lock' = Destroyed
    /\ UNCHANGED <<hist, faults>>

\* The calls of Spec, ended by lydict_clean in either build.
NextClean ==
    \E t \in Threads :
        \/ \E v \in CallerPtrs : \E len \in 0..strlen(mem, v) : CallInsert(t, v, len)
        \/ \E v \in CallerPtrs : CallInsertZc(t, Str(mem, v))
        \/ \E v \in CallerPtrs : CallRemove(t, v)
        \/ Lock(t)
        \/ DictInsertTable(t, FALSE)
        \/ DictInsertResult(t)
        \/ DictInsertStore(t)
        \/ RemoveFind(t)
        \/ RemoveFound(t)
        \/ RemoveStore(t)
        \/ RemoveTable(t)
        \/ RemoveFree(t)
        \/ Unlock(t)
        \/ Return(t) /\ lock # Destroyed
        \/ \E ndebug \in BOOLEAN : Clean(t, ndebug)

SpecClean == Init /\ [][NextClean]_vars

\* ------------------------------------------------------------ properties
\* The indexes of the live records: those on the chain of some bucket.
Live(h) == {AllRecs(h)[k] : k \in 1..Len(AllRecs(h))}

\* The live records whose string is c.
RecsWith(h, m, c) ==
    {i \in Live(h) : h.recs[i].val.value # NULL /\ Str(m, h.recs[i].val.value) = c}

\* C1 (in the runs without any remove): once N >= 1 insert calls of content
\* c (copying or zero-copy, from any threads, in any interleaving) have
\* completed, all of them have returned one and the same pointer, the table
\* holds exactly one record for c, that record holds this pointer and its
\* refcount is N.
C1_IdempotentDedup ==
    \A c \in Contents :
        (lock = 0 /\ hist[c].refs >= 1) =>
            /\ Cardinality(hist[c].ptrs) = 1
            /\ Cardinality(RecsWith(ht, mem, c)) = 1
            /\ \A i \in RecsWith(ht, mem, c) :
                   /\ ht.recs[i].val.refcount = hist[c].refs
                   /\ ht.recs[i].val.value \in hist[c].ptrs

\* Every thread has just completed an insert of the same content, their calls
\* having overlapped.
C1_Witness ==
    \E c \in Contents :
        /\ hist[c].refs = NThreads
        /\ \A t \in Threads :
               th[t].pc = "return" /\ th[t].key = c /\ th[t].op \in InsertOps
        /\ \E t \in Threads : th[t].op = "lydict_insert_zc"

\* The value pointers of the live records.
StoredPtrs(h) == {h.recs[i].val.value : i \in Live(h)}

\* A step that frees buffer p.
Frees(p) == mem[p].st = "live" /\ mem'[p].st = "freed"

\* The step is the free(val_p) of a lydict_remove that holds the mutex, has
\* taken the refcount of the record of p to zero and unlinked that record,
\* while one reference to the content (the one being released) was left.
FreedByLastRemove(p) ==
    \E t \in Threads :
        /\ th[t].pc = "rem_free" /\ th[t].op = "lydict_remove"
        /\ lock = t
        /\ th[t].val_p = p /\ th[t].key = mem[p].str
        /\ hist[mem[p].str].refs = 1
        /\ p \notin StoredPtrs(ht)

\* C2: the buffer of an interned string is freed only by the lydict_remove
\* call that releases the last outstanding reference to it, and only after
\* its record is unlinked; while references to content c are outstanding the
\* pointer the inserts of c returned is not freed; no buffer (stored or a
\* discarded duplicate) is ever freed twice.
C2_NoPrematureFree ==
    /\ [](\A p \in HeapPtrs : mem[p].frees <= 1)
    /\ [](lock = 0 =>
            \A c \in Contents : hist[c].refs > 0 =>
                /\ hist[c].ptrs # {}
                /\ \A p \in hist[c].ptrs : mem[p].st = "live")
    /\ [][\A p \in HeapPtrs : (mem[p].interned /\ Frees(p)) => FreedByLastRemove(p)]_vars

\* An interned buffer has been freed by the last remove of its content, and
\* the same content has since been interned again in another buffer that is
\* still referenced.
C2_Witness ==
    \E p, q \in HeapPtrs :
        /\ lock = 0
        /\ mem[p].interned /\ mem[p].st = "freed"
        /\ mem[q].interned /\ mem[q].st = "live" /\ mem[q].str = mem[p].str
        /\ hist[mem[q].str].refs = 2

\* The contents with more successful inserts than successful removes.
Held == {c \in Contents : hist[c].refs > 0}

\* C3: whenever no call is inside the dictionary, content c has a live record
\* iff its successful inserts outnumber its successful removes, the refcount
\* of that record is the difference and its string is the one the inserts
\* returned; used counts exactly the contents held, so a remove that leaves a
\* reference keeps the record and used, and the remove of the last reference
\* takes the record out and used down by one.
C3_MultisetRefinement ==
    lock = 0 =>
        /\ \A c \in Contents :
               /\ hist[c].refs >= 0
               /\ (hist[c].refs > 0) <=> (RecsWith(ht, mem, c) # {})
               /\ \A i \in RecsWith(ht, mem, c) :
                      /\ ht.recs[i].val.refcount = hist[c].refs
                      /\ ht.recs[i].val.value \in hist[c].ptrs
        /\ ht.used = Cardinality(Held)
        /\ ht.used = Cardinality(Live(ht))

\* insert, insert, remove, remove of one content have completed: its first
\* buffer was interned, the second discarded as a duplicate, both removes
\* succeeded, the record is gone and the table is empty again.
C3_Witness ==
    \E p, q \in HeapPtrs :
        /\ lock = 0 /\ \A t \in Threads : th[t].pc = "idle"
        /\ mem[p].interned /\ mem[p].st = "freed"
        /\ ~mem[q].interned /\ mem[q].st = "freed" /\ mem[q].str = mem[p].str
        /\ hist[mem[p].str].refs = 0
        /\ RecsWith(ht, mem, mem[p].str) = {}
        /\ ht.used = 0

\* Thread t is at the end of an insert of a content whose earlier inserts
\* and removes are balanced.
InsertAfterBalance(t) ==
    /\ th[t].pc = "unlock" /\ th[t].op \in InsertOps
    /\ hist[th[t].key].refs = 0

\* C4: when the successful removes of content c equal its successful inserts
\* the table has no record of c; the next insert of c succeeds with a fresh
\* record of refcount 1 whose value, returned to the caller, is the buffer
\* that very call supplied (its private copy, or the caller's buffer for
\* lydict_insert_zc), a live buffer that was never freed.
C4_BalancedLifecycle ==
    /\ lock = 0 => \A c \in Contents : hist[c].refs = 0 => RecsWith(ht, mem, c) = {}
    /\ \A t \in Threads : InsertAfterBalance(t) =>
           /\ th[t].ret = LY_SUCCESS
           /\ th[t].out = th[t].value
           /\ mem[th[t].out].st = "live" /\ mem[th[t].out].frees = 0
           /\ mem[th[t].out].str = th[t].key
           /\ \E i \in Live(ht) :
                  /\ RecsWith(ht, mem, th[t].key) = {i}
                  /\ ht.recs[i].val = DictRec(th[t].value, 1)

\* A content was interned, fully removed (its buffer freed), and is being
\* inserted again.
C4_Witness ==
    \E t \in Threads : \E p \in HeapPtrs :
        /\ InsertAfterBalance(t)
        /\ mem[p].interned /\ mem[p].st = "freed" /\ mem[p].str = th[t].key

\* Thread t is inside a lydict_remove of a content that has no reference
\* outstanding: never inserted, or every reference already released.
RemoveOfAbsent(t) ==
    /\ th[t].op = "lydict_remove" /\ lock = t
    /\ hist[th[t].key].refs = 0

FreedSet(m) == {p \in HeapPtrs : m[p].st = "freed"}

\* C5: a lydict_remove of a content without outstanding reference ends with
\* LY_ENOTFOUND, reported as an error, and from lock to unlock changes
\* neither the table (used, chains, every record's value and refcount) nor
\* the set of freed buffers nor the count of references; the lookup reads the
\* bytes of the argument only.
C5_RemoveAbsentFails ==
    /\ [](\A t \in Threads : (RemoveOfAbsent(t) /\ th[t].pc = "unlock") =>
             (th[t].ret = LY_ENOTFOUND /\ th[t].log = "LOGERR"))
    /\ [][\A t \in Threads : RemoveOfAbsent(t) =>
             (ht' = ht /\ FreedSet(mem') = FreedSet(mem) /\ hist' = hist)]_vars

\* The third remove after two inserts and two removes of one content has
\* looked the content up and is about to unlock.
C5_Witness ==
    \E t \in Threads : \E p, q \in HeapPtrs :
        /\ RemoveOfAbsent(t) /\ th[t].pc = "unlock"
        /\ mem[p].interned /\ mem[p].st = "freed" /\ mem[p].str = th[t].key
        /\ ~mem[q].interned /\ mem[q].st = "freed" /\ mem[q].str = th[t].key

\* Thread t is at the end of a lydict_insert_zc, before the unlock.
ZcDone(t) == th[t].pc = "unlock" /\ th[t].op = "lydict_insert_zc"

\* C6 (calls with a session, an output slot and a buffer): at the end of
\* lydict_insert_zc(buf), if the content was present buf has been freed
\* exactly once, the pointer returned is the one of the record that was
\* there (not buf), its refcount is one more than before and used is
\* unchanged; if the content was absent buf is the value of the new record,
\* is returned with refcount 1 and is not freed, used being one more.  No
\* live record ever holds a freed buffer.
C6_ZeroCopyTransfer ==
    /\ \A i \in Live(ht) : mem[ht.recs[i].val.value].st = "live"
    /\ \A t \in Threads : ZcDone(t) =>
        LET c == th[t].key
            buf == th[t].value
        IN  /\ th[t].ret = LY_SUCCESS
            /\ IF hist[c].refs > 0
               THEN /\ mem[buf].st = "freed" /\ mem[buf].frees = 1
                    /\ th[t].out # buf /\ th[t].out \in hist[c].ptrs
                    /\ \E i \in Live(ht) :
                         /\ RecsWith(ht, mem, c) = {i}
                         /\ ht.recs[i].val = DictRec(th[t].out, hist[c].refs + 1)
                    /\ ht.used = Cardinality(Held)
               ELSE /\ mem[buf].st = "live" /\ mem[buf].frees = 0
                    /\ th[t].out = buf
                    /\ \E i \in Live(ht) :
                         /\ RecsWith(ht, mem, c) = {i}
                         /\ ht.recs[i].val = DictRec(buf, 1)
                    /\ ht.used = Cardinality(Held) + 1

\* A lydict_insert_zc of a content already present has freed its buffer and
\* holds the pointer of the record that was there.
C6_Witness ==
    \E t \in Threads :
        /\ ZcDone(t) /\ hist[th[t].key].refs > 0
        /\ mem[th[t].value].st = "freed" /\ th[t].out # th[t].value

\* The outcome a call of thread t has when run alone on a dictionary in which
\* content c has n references and, if n > 0, the string ptrs = {p}.
SequentialOutcome(t) ==
    LET c == th[t].key
        n == hist[c].refs
    IN  IF th[t].op \in InsertOps
        THEN /\ th[t].ret = LY_SUCCESS
             /\ IF n > 0 THEN hist[c].ptrs = {th[t].out} ELSE th[t].out = th[t].value
             /\ mem[th[t].out].st = "live" /\ mem[th[t].out].str = c
        ELSE /\ th[t].ret = IF n > 0 THEN LY_SUCCESS ELSE LY_ENOTFOUND
             /\ (n = 1 => \A p \in hist[c].ptrs : mem[p].st = "freed")
             /\ (n > 1 => \A p \in hist[c].ptrs : mem[p].st = "live")

\* The table is the one the completed calls leave when run one after the
\* other in the order of their unlocks.
SequentialTable ==
    \A c \in Contents :
        IF hist[c].refs > 0
        THEN \E i \in Live(ht) : \E p \in HeapPtrs :
                /\ RecsWith(ht, mem, c) = {i}
                /\ hist[c].ptrs = {p}
                /\ ht.recs[i].val = DictRec(p, hist[c].refs)
        ELSE RecsWith(ht, mem, c) = {}

\* C7: the calls of all threads take effect one at a time, in the order of
\* their unlocks: the result of every call (return value, pointer returned,
\* buffer freed or kept) is the result it has when run alone after the calls
\* unlocked before it, no increment or decrement of a refcount is lost, and
\* the table between calls is the table of that sequential run; an insert
\* never returns a buffer a racing remove has freed.
C7_Linearizable ==
    /\ \A t \in Threads : th[t].pc = "unlock" => SequentialOutcome(t)
    /\ lock = 0 => SequentialTable

\* A remove has released the last reference of a content and freed its
\* buffer while an insert of the same content by another thread waits for
\* the mutex.
C7_Witness ==
    \E t, u \in Threads :
        /\ t # u
        /\ th[t].op = "lydict_remove" /\ th[t].pc = "unlock" /\ th[t].ret = LY_SUCCESS
        /\ th[t].val_p # NULL /\ mem[th[t].val_p].st = "freed"
        /\ th[u].op \in InsertOps /\ th[u].pc = "lock" /\ th[u].key = th[t].key

\* The positions at which the next step of a call is a table operation
\* (lyht_find, lyht_insert_with_resize_cb, lyht_remove_with_resize_cb) or a
\* read or write of the refcount or value of a record.
TablePcs == {"ins_table", "ins_result", "ins_store",
             "rem_find", "rem_found", "rem_store", "rem_table"}

\* The positions between pthread_mutex_lock and pthread_mutex_unlock.
LockedPcs == TablePcs \cup {"rem_free", "unlock"}

\* Thread t takes a step.
Steps(t) == th'[t] # th[t]

\* C8: every table operation and every access to the refcount or value of a
\* record made by lydict_insert, lydict_insert_zc and lydict_remove is a step
\* of the thread that holds the mutex of the dictionary; two threads are
\* never between lock and unlock at once, and the table changes only in
\* steps of the holder.
C8_MutualExclusion ==
    /\ [](\A t \in Threads : th[t].pc \in LockedPcs => lock = t)
    /\ [](Cardinality({t \in Threads : th[t].pc \in LockedPcs}) <= 1)
    /\ [][\A t \in Threads : (th[t].pc \in TablePcs /\ Steps(t)) => lock = t]_vars
    /\ [][ht' # ht => \E t \in Threads : lock = t /\ th[t].pc \in TablePcs /\ Steps(t)]_vars

\* A thread is inside lyht_remove_with_resize_cb holding the mutex while
\* another thread is blocked in pthread_mutex_lock.
C8_Witness ==
    \E t, u \in Threads :
        /\ t # u
        /\ th[t].pc = "rem_table" /\ lock = t
        /\ th[u].pc = "lock"

\* The step in which thread t leaves the region between lock and unlock.
LeavesLocked(t) == th[t].pc \in LockedPcs /\ th'[t].pc \notin LockedPcs

\* C9: whichever path a call takes after pthread_mutex_lock (fresh insert,
\* duplicate, error of the table insert, string not found, match left unset,
\* error of lyht_find or of the table remove), it leaves the locked region
\* by the one step that unlocks the mutex it holds, and only then returns:
\* no thread holds the mutex outside its call; with a fair mutex every
\* thread blocked in pthread_mutex_lock gets the mutex and every call
\* returns.
C9_LockReleased ==
    /\ [](\A t \in Threads : th[t].pc \in {"idle", "lock", "return"} => lock # t)
    /\ [][\A t \in Threads : LeavesLocked(t) =>
             (lock = t /\ lock' = 0 /\ th[t].pc = "unlock" /\ th'[t].pc = "return")]_vars
    /\ [][\A t \in Threads : (lock = t /\ lock' # t) => LeavesLocked(t)]_vars
    /\ \A t \in Threads : (th[t].pc = "lock") ~> (lock = t)
    /\ \A t \in Threads : (lock = t) ~> (th[t].pc = "idle")

\* A lydict_remove whose table remove failed has freed val_p, logged the
\* inconsistency and is about to unlock, while another thread is blocked in
\* pthread_mutex_lock.
C9_Witness ==
    \E t, u \in Threads :
        /\ t # u
        /\ th[t].op = "lydict_remove" /\ th[t].pc = "unlock" /\ lock = t
        /\ th[t].ret \in TableErrors /\ th[t].log = "LOGINT" /\ th[t].val_p # NULL
        /\ th[u].pc = "lock"

\* C10: in every state, also inside a call and after the table has grown
\* (or failed to), no two live records hold strings the equality callback of
\* the dictionary calls equal, whatever the inserts (whole string or explicit
\* length, copying or zero-copy) and removes that were made.  Strings are C
\* strings: an explicit length does not reach past the terminator.
C10_OneRecordPerString ==
    \A i, j \in Live(ht) :
        i # j => ~lydict_val_eq(mem, ht.recs[i].val, ht.recs[j].val, FALSE)

\* The table has grown, a string inserted after that was found to be there
\* already, and a chain holds several records.
C10_Witness ==
    /\ ht.size > lydict_init.size
    /\ \E i \in Live(ht) : ht.recs[i].val.refcount = 2 /\ ht.recs[i].val.value <= MaxAlloc
    /\ \E b \in 0..(ht.size - 1) : Len(BucketChain(ht, b)) >= 2

\* Thread t is in a call that ended at the check of its arguments.
BadArgs(t) ==
    \/ th[t].op \in InsertOps /\ (~th[t].ctx \/ ~th[t].str_p)
    \/ th[t].op = "lydict_remove" /\ (~th[t].ctx \/ th[t].value = NULL)

\* Thread t is in an insert of a null string (valid session and slot).
NullInsert(t) ==
    /\ th[t].op \in InsertOps /\ th[t].ctx /\ th[t].str_p
    /\ th[t].value = NULL /\ th[t].key = <<>>

\* C11: lydict_insert and lydict_insert_zc with a null session or a null
\* output slot return LY_EINVAL and write no output; with a null string they
\* return LY_SUCCESS and set the output to NULL; lydict_remove with a null
\* session or a null string returns LY_SUCCESS.  Such a call goes from its
\* entry to its return in one step that leaves the mutex, the table (used,
\* size, records, refcounts), the heap and the reference counts as they are,
\* and the caller never holds or waits for the mutex.
C11_ArgShortCircuit ==
    /\ [](\A t \in Threads :
            /\ (BadArgs(t) \/ NullInsert(t)) => (th[t].pc = "return" /\ lock # t)
            /\ (BadArgs(t) /\ th[t].op \in InsertOps) =>
                   (th[t].ret = LY_EINVAL /\ th[t].out = SlotBefore)
            /\ NullInsert(t) => (th[t].ret = LY_SUCCESS /\ th[t].out = NULL)
            /\ (BadArgs(t) /\ th[t].op = "lydict_remove") =>
                   (th[t].ret = LY_SUCCESS /\ th[t].log = "none"))
    /\ [][\A t \in Threads :
            (th[t].pc = "idle" /\ th'[t].pc = "return") =>
                (ht' = ht /\ lock' = lock /\ mem' = mem /\ hist' = hist)]_vars

\* While one thread holds the mutex with the string interned, another has
\* returned from an insert of a null string, and the record is untouched.
C11_Witness ==
    \E t, u \in Threads :
        /\ t # u
        /\ NullInsert(t) /\ th[t].pc = "return" /\ th[t].op = "lydict_insert_zc"
        /\ lock = u /\ ht.used = 1

\* Thread t is in a lydict_insert whose malloc of the private copy failed.
CopyFailed(t) ==
    th[t].op = "lydict_insert" /\ th[t].value = NULL /\ th[t].key # <<>>

\* C12: a lydict_insert whose allocation of the private copy fails returns
\* LY_EMEM (logged) in one step from its entry, without taking or waiting
\* for the mutex; the table keeps its records and refcounts, also when the
\* content is already there, and the output slot keeps what it held.
C12_CopyOutOfMemory ==
    /\ [](\A t \in Threads : CopyFailed(t) =>
            /\ th[t].pc = "return" /\ lock # t
            /\ th[t].ret = LY_EMEM /\ th[t].log = "LOGMEM"
            /\ th[t].out = SlotBefore)
    /\ [][\A t \in Threads : (~CopyFailed(t) /\ CopyFailed(t)') =>
            (ht' = ht /\ lock' = lock /\ mem' = mem /\ hist' = hist)]_vars

\* The allocation failed for an insert of a content that is interned with
\* two references, and nothing has been added to them.
C12_Witness ==
    \E t \in Threads : \E i \in Live(ht) :
        /\ CopyFailed(t) /\ lock = 0
        /\ Str(mem, ht.recs[i].val.value) = th[t].key
        /\ ht.recs[i].val.refcount = 2 /\ hist[th[t].key].refs = 2

\* Thread t has returned from a call in which the table handed back an
\* error other than LY_EEXIST (insert) or LY_ENOTFOUND (find).
TableFailed(t) == th[t].pc = "return" /\ th[t].terr # "none"

CleanStep(t) == th[t].pc = "idle" /\ th'[t].op = "lydict_clean"

\* The strings interned and not yet freed.
Interned(m) == {p \in HeapPtrs : m[p].interned /\ m[p].st = "live"}

\* What lydict_clean does in every build: one warning for each record still
\* in the table and none besides, the table freed, the mutex destroyed, no
\* buffer freed twice.
CleanAudit(t) ==
    /\ th'[t].warned = StoredPtrs(ht) /\ StoredPtrs(ht) = Interned(mem)
    /\ Cardinality(th'[t].warned) = ht.used
    /\ (ht.used = 0) <=> (th'[t].log = "none")
    /\ ht' = FreedTable(ht) /\ lock' = Destroyed
    /\ \A p \in HeapPtrs : mem'[p].frees <= 1

Lookup(i) ==
    lyht_find(ht, mem, DictRec(-i, 0), lyht_hash(CallerStr[i], Len(CallerStr[i])))

\* C15: between calls, also after the table has grown twice (with duplicate
\* inserts and removes in between), the lookup of every string still held
\* finds a record with the content, the pointer the inserts returned (still
\* allocated) and the refcount inserts minus removes; the lookup of a string
\* not held finds nothing; used is the number of records on the chains and
\* no record is on two chains.
C15_ResizeKeepsRecords ==
    lock = 0 =>
        /\ \A i \in 1..Len(CallerStr) :
              LET c == CallerStr[i]
                  f == Lookup(i)
              IN  IF hist[c].refs > 0
                  THEN /\ f.ret = LY_SUCCESS
                       /\ Str(mem, ht.recs[f.match].val.value) = c
                       /\ hist[c].ptrs = {ht.recs[f.match].val.value}
                       /\ mem[ht.recs[f.match].val.value].st = "live"
                       /\ ht.recs[f.match].val.refcount = hist[c].refs
                       /\ ht.recs[f.match].hash = lyht_hash(c, Len(c))
                  ELSE f.ret = LY_ENOTFOUND
        /\ ht.used = Len(AllRecs(ht))
        /\ ht.used = Cardinality(Live(ht))

\* The table has grown a second time; since then a string was inserted
\* again and a string interned before the first growth was removed.
C15_Witness ==
    /\ lock = 0
    /\ ht.size = 4 * lydict_init.size
    /\ \E i \in Live(ht) : ht.recs[i].val.refcount = 2
    /\ \E v \in Releasable : hist[CallerStr[-v]].refs = 0

\* ------------------------------------------------------------------- C16
\* A thread's local hash is assigned in this step.
HashAssigned(t) == th'[t].hash # th[t].hash /\ th'[t].pc # "idle"

\* A buffer is freed in this step.
FreedNow(p) == mem[p].st = "live" /\ mem'[p].st = "freed"

\* C16 as stated: in lydict_insert, lydict_insert_zc and lydict_remove the
\* hash is computed before the mutex is acquired, so no thread assigns its
\* hash while it holds the mutex.
C16_HashBeforeLock ==
    [][\A t \in Threads : HashAssigned(t) => lock # t /\ lock' # t]_vars

\* C16 as the code has it: lydict_remove computes the hash in the step of
\* the call, before it takes the mutex; lydict_insert and lydict_insert_zc
\* compute it inside dict_insert, in the step of the table insert, holding
\* the mutex, and arrive at the mutex without a hash.  Between lock and
\* unlock, besides the table call and the refcount update, the holder frees
\* the unused buffer of a duplicate insert or the string of a removed
\* record: every free is made by the holder of the mutex.
C16_HashWhereTheCodeHasIt ==
    [][/\ \A t \in Threads :
             /\ HashAssigned(t) =>
                   IF th'[t].op = "lydict_remove"
                   THEN th[t].pc = "idle" /\ th'[t].pc = "lock" /\ lock # t
                   ELSE th[t].pc = "ins_table" /\ lock = t /\ lock' = t
             /\ th'[t].pc = "lock" /\ th'[t].op \in InsertOps => th'[t].hash = 0
             /\ th'[t].pc = "lock" /\ th'[t].op = "lydict_remove" =>
                   th'[t].hash = lyht_hash(th'[t].key, Len(th'[t].key))
       /\ \A p \in HeapPtrs :
             FreedNow(p) => lock \in Threads /\ lock' = lock
                            /\ th[lock].pc \in {"ins_result", "ins_store", "rem_free"}]_vars

\* One thread has just hashed its string inside dict_insert while holding
\* the mutex; another, in lydict_remove, waits for the mutex with its hash
\* already computed.
C16_Witness ==
    \E t, u \in Threads :
        /\ lock = t /\ th[t].pc = "ins_result" /\ th[t].op \in InsertOps
        /\ th[t].hash = lyht_hash(th[t].key, Len(th[t].key)) /\ th[t].hash # 0
        /\ u # t /\ th[u].pc = "lock" /\ th[u].op = "lydict_remove"
        /\ th[u].hash # 0

\* ------------------------------------------------------------------- C17
\* Fill of the table in percent.
Fill(h) == (h.used * LYHT_HUNDRED_PERCENTAGE) \div h.size

\* C17 as stated: the dictionary's table is grow-only, its size never
\* decreases across inserts and removes.
C17_GrowOnly == [][ht'.size >= ht.size]_vars

\* C17 as the table behaves: lydict_init creates the table at the starting
\* capacity with enlarging enabled (resize 1); the insert that makes it at
\* least LYHT_FIRST_SHRINK_PERCENTAGE full enables shrinking (resize 2) and
\* nothing disables it again; the size decreases only in the table remove of
\* lydict_remove, only with shrinking enabled, only by halving a table that
\* the remove left less than LYHT_SHRINK_PERCENTAGE full, and never below
\* LYHT_MIN_SIZE.
C17_ShrinksOnceEnabled ==
    /\ lydict_init.resize = 1
    /\ lydict_init.size >= TableStartSize
    /\ lydict_init.used = 0
    /\ [][/\ ht'.resize >= ht.resize
          /\ ht'.resize # ht.resize =>
                /\ ht.resize = 1 /\ ht'.resize = 2
                /\ ht'.used = ht.used + 1
                /\ ((ht.used + 1) * LYHT_HUNDRED_PERCENTAGE) \div ht.size
                       >= LYHT_FIRST_SHRINK_PERCENTAGE
          /\ ht.resize = 1 /\ ht'.used = ht.used + 1
                /\ ((ht.used + 1) * LYHT_HUNDRED_PERCENTAGE) \div ht.size
                       >= LYHT_FIRST_SHRINK_PERCENTAGE
                => ht'.resize = 2
          /\ ht'.size < ht.size =>
                /\ ht.resize = 2
                /\ 2 * ht'.size = ht.size
                /\ ht'.size >= LYHT_MIN_SIZE
                /\ ht'.used = ht.used - 1
                /\ (ht'.used * LYHT_HUNDRED_PERCENTAGE) \div ht.size
                       < LYHT_SHRINK_PERCENTAGE
                /\ \E t \in Threads : th[t].pc = "rem_table" /\ lock = t]_vars

\* The table lydict_init made has grown to twice the starting capacity and
\* shrinking is enabled; the holder of the mutex is at the table remove of a
\* record whose removal leaves the table less than LYHT_SHRINK_PERCENTAGE
\* full, so the step it takes halves the table.
C17_Witness ==
    \E t \in Threads :
        /\ lock = t /\ th[t].pc = "rem_table"
        /\ ht.resize = 2
        /\ ht.size = 2 * lydict_init.size
        /\ ((ht.used - 1) * LYHT_HUNDRED_PERCENTAGE) \div ht.size
               < LYHT_SHRINK_PERCENTAGE
        /\ lyht_find(ht, mem, DictRec(th[t].value, 0), th[t].hash).ret = LY_SUCCESS

\* ------------------------------------------------- a table on its own
\* The values offered to the table: dictionary records of the first NVals
\* strings of Preloaded, each with the hash of its bytes.
TableVals == {DictRec(MaxAlloc + k, 1) : k \in 1..NVals}

\* The initial sizes asked of lyht_new.
TableSizes == {1, TableStartSize - 1, TableStartSize + 1}

ValHash(m, val) == lyht_hash(Str(m, val.value), strlen(m, val.value))

\* What the observer notes of a table call: the call, its value, whether
\* the allocation of its resize failed, its result, and the size of the
\* table when it was called.
TableCall(op, val, oom, ret, size) ==
    [op |-> op, val |-> val, oom |-> oom, ret |-> ret, size |-> size]

\* lyht_new(size, sizeof(struct ly_dict_rec), lydict_val_eq, NULL, resize)
\* with resizing disabled or enabled.
InitTable ==
    /\ \E size \in TableSizes : \E resize \in {0, 1} :
           ht = lyht_new(size, "lydict_val_eq", resize)
    /\ lock = 0
    /\ mem = PreMem(NVals)
    /\ th = [t \in Threads |-> IdleThread]
    /\ hist = TableCall("none", DictRec(NULL, 0), FALSE, LY_SUCCESS, ht.size)
    /\ faults = 0

\* lyht_insert_with_resize_cb(ht, &val, hash, lydict_resize_val_eq, &match);
\* with oom the allocation of the resize the call attempts fails.
TableInsert(val, oom) ==
    LET hash == ValHash(mem, val)
        r == lyht_insert_with_resize_cb(ht, mem, val, hash, "lydict_resize_val_eq", oom)
        r0 == lyht_insert_with_resize_cb(ht, mem, val, hash, "lydict_resize_val_eq", FALSE)
    IN  /\ oom => faults < MaxFaults /\ r # r0
        /\ ht' = r.ht
        /\ hist' = TableCall("lyht_insert", val, oom, r.ret, ht.size)
        /\ faults' = IF oom THEN faults + 1 ELSE faults
        /\ UNCHANGED <<lock, mem, th>>

\* lyht_remove_with_resize_cb(ht, &val, hash, lydict_resize_val_eq); with oom
\* the allocation of the resize the call attempts fails.
TableRemove(val, oom) ==
    LET hash == ValHash(mem, val)
        r == lyht_remove_with_resize_cb(ht, mem, val, hash, "lydict_resize_val_eq", oom)
        r0 == lyht_remove_with_resize_cb(ht, mem, val, hash, "lydict_resize_val_eq", FALSE)
    IN  /\ oom => faults < MaxFaults /\ r # r0
        /\ ht' = r.ht
        /\ hist' = TableCall("lyht_remove", val, oom, r.ret, ht.size)
        /\ faults' = IF oom THEN faults + 1 ELSE faults
        /\ UNCHANGED <<lock, mem, th>>

\* The value is in the table.
InTable(val) == lyht_find(ht, mem, val, ValHash(mem, val)).ret = LY_SUCCESS

\* The values the caller of the table removes again.
TableRemovable == {DictRec(MaxAlloc + k, 1) : k \in 1..(NVals \div 2)}

\* The caller inserts a value the table holds, or the first of TableVals
\* it does not hold; it removes the values of TableRemovable.
NextTable ==
    \E val \in TableVals : \E oom \in BOOLEAN :
        \/ /\ \A w \in TableVals : (w.value < val.value) => (InTable(w) \/ InTable(val))
           /\ TableInsert(val, oom)
        \/ /\ val \in TableRemovable
           /\ TableRemove(val, oom)

SpecTable == InitTable /\ [][NextTable]_vars

\* ------------------------------------------------------------------- C18
\* C18: in every state of a table, whatever initial size was asked for and
\* whatever inserts, removes, growths, shrinks and failed resizes followed,
\* size is a power of two and at least LYHT_MIN_SIZE (8).
C18_SizePowerOfTwo ==
    /\ RoundUpPow2(ht.size, 1) = ht.size
    /\ ht.size >= LYHT_MIN_SIZE

\* A table that has had a resize fail and has just been halved by a remove
\* to the minimum size.
C18_Witness ==
    /\ faults > 0
    /\ hist.op = "lyht_remove" /\ hist.ret = LY_SUCCESS
    /\ hist.size = 2 * ht.size
    /\ ht.size = LYHT_MIN_SIZE
    /\ ht.used > 1

\* ------------------------------------------------------------------- C19
\* The free list of the table.
FreeList(h) == ChainFrom(h.recs, h.first_free_rec, h.size)

\* A list of record indexes that visits no record twice and whose last
\* record ends the list with NO_RECORD.
ProperList(h, l) ==
    /\ \A i, j \in 1..Len(l) : l[i] = l[j] => i = j
    /\ \A i \in 1..Len(l) : l[i] \in 0..(h.size - 1)
    /\ l # <<>> => h.recs[l[Len(l)]].next = LYHT_NO_RECORD

Elems(l) == {l[i] : i \in 1..Len(l)}

\* C19: the slots are partitioned into the records on the bucket chains and
\* those on the free list; a live record is on exactly one chain, once, and
\* it is the chain of bucket (cached hash & (size - 1)); chains and free list
\* are acyclic and end in NO_RECORD; a bucket's last is the tail of its
\* chain; used is the number of live records.
C19_WellFormed ==
    /\ \A b \in 0..(ht.size - 1) :
          LET chain == BucketChain(ht, b)
          IN  /\ ProperList(ht, chain)
              /\ \A k \in 1..Len(chain) : BucketIdx(ht, ht.recs[chain[k]].hash) = b
              /\ chain # <<>> => ht.buckets[b].last = chain[Len(chain)]
              /\ chain = <<>> <=> ht.buckets[b].first = LYHT_NO_RECORD
    /\ \A b, c \in 0..(ht.size - 1) :
          b # c => Elems(BucketChain(ht, b)) \cap Elems(BucketChain(ht, c)) = {}
    /\ ProperList(ht, FreeList(ht))
    /\ Elems(FreeList(ht)) \cap Live(ht) = {}
    /\ Elems(FreeList(ht)) \cup Live(ht) = 0..(ht.size - 1)
    /\ ht.used = Cardinality(Live(ht))
    /\ ht.used = Len(AllRecs(ht))

\* A table that grew and has just been halved by a remove: the records that
\* were rehashed include a chain of at least two, whose last record is not
\* its first, and the rest of the slots is on the free list.
C19_Witness ==
    /\ hist.op = "lyht_remove" /\ hist.ret = LY_SUCCESS
    /\ hist.size = 2 * ht.size
    /\ ht.used >= 3
    /\ Len(FreeList(ht)) = ht.size - ht.used
    /\ \E b \in 0..(ht.size - 1) :
          Len(BucketChain(ht, b)) >= 2 /\ ht.buckets[b].last # ht.buckets[b].first

\* ------------------------------------------------------------------- C20
\* C20: with growth enabled and no failed allocation, the insert that links
\* a record and thereby brings the fill (counted with the new record) to at
\* least LYHT_ENLARGE_PERCENTAGE doubles size in that same call, and an
\* insert that stays below it leaves size alone; an insert that answers
\* LY_EEXIST changes nothing of the table; used never exceeds size, and as
\* long as no allocation has failed a table with growth enabled is below the
\* threshold between calls.
C20_LoadBound ==
    /\ [](ht.used <= ht.size)
    /\ [](ht.resize # 0 /\ faults = 0 => Fill(ht) < LYHT_ENLARGE_PERCENTAGE)
    /\ [][/\ hist'.op = "lyht_insert" /\ hist'.ret = LY_EEXIST => ht' = ht
          /\ hist'.op = "lyht_insert" /\ hist'.ret = LY_SUCCESS =>
                /\ ht'.used = ht.used + 1
                /\ IF /\ ht.resize # 0 /\ ~hist'.oom
                      /\ ((ht.used + 1) * LYHT_HUNDRED_PERCENTAGE) \div ht.size
                             >= LYHT_ENLARGE_PERCENTAGE
                   THEN ht'.size = 2 * ht.size
                   ELSE ht'.size = ht.size]_vars

\* The insert just made has linked the record that made the table three
\* quarters full and has doubled the table; its records then fill less than
\* half of it.
C20_Witness ==
    /\ hist.op = "lyht_insert" /\ hist.ret = LY_SUCCESS /\ ~hist.oom
    /\ faults = 0
    /\ ht.size = 2 * hist.size
    /\ (ht.used * LYHT_HUNDRED_PERCENTAGE) \div LYHT_MIN_SIZE = LYHT_ENLARGE_PERCENTAGE

\* ------------------------------------------------------------------- C21
\* The value is in the table h.
FoundIn(h, val) == lyht_find(h, mem, val, ValHash(mem, val)).ret = LY_SUCCESS

\* C21: a call whose resize could not allocate leaves the table at the size
\* it had, well-formed, with every other value found exactly if it was found
\* before, and answers for its own work: the insert answers LY_SUCCESS, its
\* value is found and used is one more; the remove answers LY_SUCCESS, its
\* value is no longer found and used is one less.
C21_FailedResizeHarmless ==
    /\ [](hist.oom => C19_WellFormed /\ ht.size = hist.size)
    /\ [][hist'.oom =>
             /\ ht'.size = ht.size
             /\ ht'.resize # 0
             /\ hist'.ret = LY_SUCCESS
             /\ \A w \in TableVals \ {hist'.val} : FoundIn(ht', w) <=> FoundIn(ht, w)
             /\ IF hist'.op = "lyht_insert"
                THEN /\ ~FoundIn(ht, hist'.val) /\ FoundIn(ht', hist'.val)
                     /\ ht'.used = ht.used + 1
                     /\ Fill(ht') >= LYHT_ENLARGE_PERCENTAGE
                ELSE /\ FoundIn(ht, hist'.val) /\ ~FoundIn(ht', hist'.val)
                     /\ ht'.used = ht.used - 1
                     /\ Fill(ht') < LYHT_SHRINK_PERCENTAGE]_vars

\* The insert just made has linked the record that makes the table three
\* quarters full; the allocation of the growth failed and the table is at
\* the size it had, holding the new value.
C21_Witness ==
    /\ hist.op = "lyht_insert" /\ hist.oom /\ hist.ret = LY_SUCCESS
    /\ ht.size = hist.size
    /\ Fill(ht) >= LYHT_ENLARGE_PERCENTAGE
    /\ FoundIn(ht, hist.val)

\* ------------------------------------------- the callbacks on their own
\* The strings the records compared point to: none, strings of the caller,
\* and heap strings, two of which have the bytes of a caller string.
EqPtrs == {NULL} \cup CallerPtrs \cup {Preloaded[1], Preloaded[2]}
              \cup {MaxAlloc + 1, MaxAlloc + 2}

\* The records compared.
EqRecs == {DictRec(p, rc) : p \in EqPtrs, rc \in {0, 1, UINT_MOD - 1}}

Callbacks == {"lydict_val_eq", "lydict_resize_val_eq"}

\* What the observer holds of a comparison: the three records, and once the
\* callbacks were called, the mode and what each answered for each pair.
EqCase(recs, done, mod, res) == [recs |-> recs, done |-> done, mod |-> mod, res |-> res]

NoAnswers == [cb \in Callbacks |-> [i \in 1..3 |-> [j \in 1..3 |-> FALSE]]]

InitEq ==
    /\ ht = lydict_init
    /\ lock = 0
    /\ mem = PreMem(2)
    /\ th = [t \in Threads |-> IdleThread]
    /\ \E a, b, c \in EqRecs : hist = EqCase(<<a, b, c>>, FALSE, FALSE, NoAnswers)
    /\ faults = 0

\* Both callbacks are called on every pair of the three records with the
\* mode flag mod.
EqApply(mod) ==
    /\ ~hist.done
    /\ hist' = EqCase(hist.recs, TRUE, mod,
                      [cb \in Callbacks |-> [i \in 1..3 |-> [j \in 1..3 |->
                          ValEqual(cb, mem, hist.recs[i], hist.recs[j], mod)]]])
    /\ UNCHANGED <<ht, lock, mem, th, faults>>

NextEq == \E mod \in BOOLEAN : EqApply(mod)

SpecEq == InitEq /\ [][NextEq]_vars

\* ------------------------------------------------------------------- C22
\* Both strings are there and have the same bytes up to the terminator.
SameString(val1, val2) ==
    /\ val1.value # NULL /\ val2.value # NULL
    /\ Len(Str(mem, val1.value)) = Len(Str(mem, val2.value))
    /\ \A k \in 1..Len(Str(mem, val1.value)) :
          Str(mem, val1.value)[k] = Str(mem, val2.value)[k]

\* C22: for every pair of records and both modes lydict_resize_val_eq answers
\* what lydict_val_eq answers, which is true exactly if both strings are
\* non-null and equal byte for byte; the relation is symmetric, transitive,
\* reflexive on records with a string, and does not depend on the refcount.
C22_SameRelation ==
    hist.done =>
        LET eq == hist.res["lydict_val_eq"]
            req == hist.res["lydict_resize_val_eq"]
            r == hist.recs
        IN  /\ \A i, j \in 1..3 :
                  /\ req[i][j] = eq[i][j]
                  /\ eq[i][j] <=> SameString(r[i], r[j])
                  /\ eq[i][j] <=> eq[j][i]
                  /\ r[i].value = r[j].value /\ r[i].value # NULL => eq[i][j]
            /\ \A i \in 1..3 : eq[i][i] <=> r[i].value # NULL
            /\ \A i, j, k \in 1..3 : eq[i][j] /\ eq[j][k] => eq[i][k]

\* The callbacks were called in the mode of an insert on two records with
\* different pointers and different refcounts to the same bytes, which they
\* call equal, and on a third without a string, which equals nothing.
C22_Witness ==
    /\ hist.done /\ hist.mod
    /\ hist.recs[1].value # hist.recs[2].value
    /\ hist.recs[1].refcount # hist.recs[2].refcount
    /\ hist.res["lydict_resize_val_eq"][1][2]
    /\ hist.res["lydict_val_eq"][1][2]
    /\ hist.recs[3].value = NULL
    /\ ~hist.res["lydict_resize_val_eq"][3][3]

\* ------------------------------------------------------------------- C23
\* C23: whenever the mutex is not held, every live record of the table has
\* a refcount of at least 1 and a value that points to storage that is
\* allocated and has not been freed; this also after a lydict_remove or a
\* dict_insert whose table call returned an error.
C23_LiveRecordsValid ==
    lock = 0 =>
        \A i \in Live(ht) :
            /\ ht.recs[i].val.refcount >= 1
            /\ ht.recs[i].val.value # NULL
            /\ mem[ht.recs[i].val.value].st = "live"

\* ------------------------------------------- a refcount at its maximum
\* The string whose record has been inserted as often as the refcount can
\* count.
WrapPtrs == {Preloaded[1]}

\* The dictionary after UINT_MOD - 1 inserts of the string of WrapPtrs and
\* no remove: one record, its refcount at the maximum of the field.
InitWrap ==
    /\ ht = LET h == PreTable(1)
                i == CHOOSE i \in Live(h) : TRUE
            IN  [h EXCEPT !.recs[i].val.refcount = UINT_MOD - 1]
    /\ lock = 0
    /\ mem = PreMem(1)
    /\ th = [t \in Threads |-> IdleThread]
    /\ hist = [PreHist(1) EXCEPT ![Str(mem, Preloaded[1])].refs = UINT_MOD - 1]
    /\ faults = 0

\* The calls of Spec with that string.
NextWrap ==
    \E t \in Threads :
        \/ \E v \in WrapPtrs : \E len \in 0..strlen(mem, v) : CallInsert(t, v, len)
        \/ \E v \in WrapPtrs : CallInsertZc(t, Str(mem, v))
        \/ \E v \in WrapPtrs : CallRemove(t, v)
        \/ Lock(t)
        \/ DictInsertTable(t, FALSE)
        \/ DictInsertResult(t)
        \/ DictInsertStore(t)
        \/ RemoveFind(t)
        \/ RemoveFound(t)
        \/ RemoveStore(t)
        \/ RemoveTable(t)
        \/ RemoveFree(t)
        \/ Unlock(t)
        \/ Return(t)

SpecWrap == InitWrap /\ [][NextWrap]_vars

\* ------------------------------------------------------------------- C24
\* C24: the refcount of a record is never incremented past the maximum of
\* its field nor decremented below zero: a step changes the refcount of a
\* record that stays in its slot by one up or one down, never from the
\* maximum to 0 or from 0 to the maximum; and between calls the refcount of
\* every record is the number of inserts of its string minus the number of
\* removes, not that number modulo the width of the field.
C24_NoWrap ==
    /\ [](lock = 0 =>
             \A i \in Live(ht) :
                 ht.recs[i].val.refcount = hist[Str(mem, ht.recs[i].val.value)].refs)
    /\ [][\A i \in Live(ht) \cap Live(ht') :
             ht'.size = ht.size /\ ht'.recs[i].val.value = ht.recs[i].val.value =>
                 \/ ht'.recs[i].val.refcount = ht.recs[i].val.refcount
                 \/ ht'.recs[i].val.refcount = ht.recs[i].val.refcount + 1
                 \/ ht'.recs[i].val.refcount = ht.recs[i].val.refcount - 1]_vars

====
